---------------------------- MODULE Spec2Model ----------------------------
(* Model of lib/src/lua.rs of aseprite-dmi: the Lua-facing operations     *)
(* merge_spritesheet, remove_dir, resize / crop / expand and paste_state.  *)
(* Byte buffers are sequences of naturals 0..255; offsets are 0-based as   *)
(* in the Rust source and converted to 1-based only inside Slice.          *)
EXTENDS Integers, Sequences, FiniteSets, TLC

VARIABLES fs, result, call, dmi, scratch, doc, clipboard, input, ops

vars == <<fs, result, call, dmi, scratch, doc, clipboard, input, ops>>

(***************************************************************************)
(* Bounds                                                                  *)
(***************************************************************************)
MaxPngChunks == 2
MaxDmiChunks == 1
MaxDepth == 2
MaxFileLen == 56
MaxDim == 2
MaxKeys == 3
MaxOps == 2
MaxPastes == 1

(***************************************************************************)
(* Byte-level helpers                                                      *)
(***************************************************************************)
Slice(s, a, b) == SubSeq(s, a + 1, b)

Min(S) == CHOOSE m \in S : \A n \in S : m <= n

RECURSIVE Concat(_)
Concat(ss) == IF ss = <<>> THEN <<>> ELSE Head(ss) \o Concat(Tail(ss))

SeqsUpTo(S, n) == UNION {[1..k -> S] : k \in 0..n}

be32(n) ==
    <<(n \div 16777216) % 256, (n \div 65536) % 256, (n \div 256) % 256, n % 256>>

\* ((d[i] as u32) << 24) | ((d[i+1] as u32) << 16) | ((d[i+2] as u32) << 8) | d[i+3]
\* A value of 2^30 or more stands for itself or anything larger: every buffer
\* of the model is shorter, and the length is only ever compared with one.
read_be_u32(d, i) ==
    IF d[i + 1] >= 64 THEN 1073741824
    ELSE d[i + 1] * 16777216 + d[i + 2] * 65536 + d[i + 3] * 256 + d[i + 4]

zTXt == <<122, 84, 88, 116>>
IDAT == <<73, 68, 65, 84>>
IHDR == <<73, 72, 68, 82>>
tEXt == <<116, 69, 88, 116>>
IEND == <<73, 69, 78, 68>>
PNG_SIGNATURE == <<137, 80, 78, 71, 13, 10, 26, 10>>

(***************************************************************************)
(* checksum(tag, payload): the standard CRC-32 of the container format     *)
(* (reflected polynomial EDB88320, initial value and final xor FFFFFFFF).  *)
(***************************************************************************)
RECURSIVE xor(_, _)
xor(a, b) ==
    IF a = 0 THEN b
    ELSE IF b = 0 THEN a
    ELSE (((a % 2) + (b % 2)) % 2) + 2 * xor(a \div 2, b \div 2)

CRC_POLY == <<237, 184, 131, 32>>
CRC_ONES == <<255, 255, 255, 255>>

\* a 32-bit value is kept as its four big-endian bytes
xor4(a, b) == <<xor(a[1], b[1]), xor(a[2], b[2]), xor(a[3], b[3]), xor(a[4], b[4])>>

shr1(c) ==
    <<c[1] \div 2,
      (c[2] \div 2) + 128 * (c[1] % 2),
      (c[3] \div 2) + 128 * (c[2] % 2),
      (c[4] \div 2) + 128 * (c[3] % 2)>>

\* one bit of the bitwise algorithm: c = (c >> 1) ^ (POLY if c & 1 else 0)
crc_bit(c) == IF c[4] % 2 = 1 THEN xor4(shr1(c), CRC_POLY) ELSE shr1(c)

\* the usual 256-entry table: entry n is n pushed through eight bit steps
CRC_TABLE ==
    [n \in 0..255 |->
        crc_bit(crc_bit(crc_bit(crc_bit(
        crc_bit(crc_bit(crc_bit(crc_bit(<<0, 0, 0, n>>))))))))]

\* c = table[(c ^ b) & 0xff] ^ (c >> 8)
crc_byte(c, b) == xor4(CRC_TABLE[xor(c[4], b)], <<0, c[1], c[2], c[3]>>)

RECURSIVE crc_update(_)
crc_update(bytes) ==
    IF bytes = <<>> THEN CRC_ONES
    ELSE crc_byte(crc_update(SubSeq(bytes, 1, Len(bytes) - 1)), bytes[Len(bytes)])

checksum(tag, payload) == xor4(crc_update(tag \o payload), CRC_ONES)

Chunk(tag, payload) ==
    be32(Len(payload)) \o tag \o payload \o checksum(tag, payload)

(***************************************************************************)
(* Values returned to Lua                                                  *)
(***************************************************************************)
None == [some |-> FALSE, pos |-> 0]
Some(i) == [some |-> TRUE, pos |-> i]

Ok(v) == [status |-> "Ok", value |-> v]
Err(msg) == [status |-> "Err", value |-> msg]
Panic == [status |-> "panic", value |-> "index out of range"]

NoCall == [op |-> "none", args |-> <<>>]
NoResult == [op |-> "none", status |-> "none", value |-> "none"]
Returned(op, ret) == [op |-> op, status |-> ret.status, value |-> ret.value]

(***************************************************************************)
(* File system: a finite tree of paths; every path is absent, a directory  *)
(* or a regular file holding bytes.                                        *)
(***************************************************************************)
Names == {"sheet", "orig", "tmp"}
Paths == UNION {[1..k -> Names] : k \in 1..MaxDepth}

Absent == [kind |-> "absent", data |-> <<>>]
Dir == [kind |-> "dir", data |-> <<>>]
File(bytes) == [kind |-> "file", data |-> bytes]

Parent(p) == SubSeq(p, 1, Len(p) - 1)
IsPrefix(p, q) == Len(p) <= Len(q) /\ SubSeq(q, 1, Len(p)) = p
Children(p) == {q \in Paths : Len(q) = Len(p) + 1 /\ IsPrefix(p, q)}

WellFormed(f) ==
    \A p \in Paths :
        (Len(p) > 1 /\ f[p].kind # "absent") => f[Parent(p)].kind = "dir"

\* Path::exists, Path::is_dir
path_exists(f, p) == f[p].kind # "absent"
path_is_dir(f, p) == f[p].kind = "dir"

\* std::fs::read succeeds only on a regular file
fs_read_ok(f, p) == f[p].kind = "file"

\* std::fs::write creates or truncates a regular file; it fails when the
\* parent is not a directory or the path names a directory
fs_write_ok(f, p) ==
    /\ Len(p) = 1 \/ f[Parent(p)].kind = "dir"
    /\ f[p].kind # "dir"
fs_write(f, p, bytes) == [f EXCEPT ![p] = File(bytes)]

\* std::fs::read_dir(p).next().is_none()
read_dir_is_empty(f, p) == \A q \in Children(p) : f[q].kind = "absent"

\* std::fs::remove_dir_all, std::fs::remove_dir
fs_remove_dir_all(f, p) ==
    [q \in Paths |-> IF IsPrefix(p, q) THEN Absent ELSE f[q]]
fs_remove_dir(f, p) == [f EXCEPT ![p] = Absent]

(***************************************************************************)
(* Icon documents.  A tile is a width x height grid of pixels, pixel 0     *)
(* being fully transparent.  The Lua side holds a table with the states'   *)
(* metadata and a frame_key per state; the pixels live in files of the     *)
(* scratch directory, one per frame_key.                                   *)
(***************************************************************************)
Transparent == [a |-> 0, v |-> 0]
Opaque(v) == [a |-> 255, v |-> v]

Grid(w, h) == (0..(w - 1)) \X (0..(h - 1))
Tile(w, h, px) == [width |-> w, height |-> h, px |-> px]
Blank(w, h) == Tile(w, h, [q \in Grid(w, h) |-> Transparent])

\* image::imageops::crop followed by the transparent fill of section 4.4
crop_tile(img, x, y, width, height) ==
    Tile(width, height,
         [q \in Grid(width, height) |->
            IF x + q[1] < img.width /\ y + q[2] < img.height
            THEN img.px[<<x + q[1], y + q[2]>>]
            ELSE Transparent])

\* the tile placed at (x, y) on a blank width x height canvas
expand_tile(img, x, y, width, height) ==
    Tile(width, height,
         [q \in Grid(width, height) |->
            IF /\ q[1] >= x /\ q[1] - x < img.width
               /\ q[2] >= y /\ q[2] - y < img.height
            THEN img.px[<<q[1] - x, q[2] - y>>]
            ELSE Transparent])

\* nearest-neighbour resampling; the other filters are the imaging library's
resize_tile(img, width, height) ==
    Tile(width, height,
         [q \in Grid(width, height) |->
            img.px[<<(q[1] * img.width) \div width,
                     (q[2] * img.height) \div height>>]])

MapFrames(d, F(_)) ==
    [s \in 1..Len(d.states) |->
        [d.states[s] EXCEPT !.frames = [k \in 1..Len(@) |-> F(@[k])]]]

\* Dmi::resize, Dmi::crop, Dmi::expand (section 4.4)
Dmi_resize(d, width, height) ==
    LET F(img) == resize_tile(img, width, height)
    IN  [d EXCEPT !.width = width, !.height = height, !.states = MapFrames(d, F)]

Dmi_crop(d, x, y, width, height) ==
    LET F(img) == crop_tile(img, x, y, width, height)
    IN  [d EXCEPT !.width = width, !.height = height, !.states = MapFrames(d, F)]

Dmi_expand(d, x, y, width, height) ==
    LET F(img) == expand_tile(img, x, y, width, height)
    IN  [d EXCEPT !.width = width, !.height = height, !.states = MapFrames(d, F)]

\* FromLuaTable for SerializedState: every field is read from the table key
\* of the same name, loop_ from "loop"
SerializedState_from_lua_table_swapped(table) ==
    [name |-> table.name, dirs |-> table.dirs, frame_key |-> table.frame_key,
     frame_count |-> table.frame_count, delays |-> table.delays,
     loop_ |-> table.loop, rewind |-> table.movement,
     movement |-> table.rewind, hotspots |-> table.hotspots]

SerializedState_from_lua_table(table) ==
    [name |-> table.name, dirs |-> table.dirs, frame_key |-> table.frame_key,
     frame_count |-> table.frame_count, delays |-> table.delays,
     loop_ |-> table.loop, rewind |-> table.rewind,
     movement |-> table.movement, hotspots |-> table.hotspots]

SerializedDmi_from_lua_table(table) ==
    [name |-> table.name, width |-> table.width, height |-> table.height,
     states |-> [i \in 1..Len(table.states) |->
                    SerializedState_from_lua_table(table.states[i])],
     temp |-> table.temp]

\* IntoLuaTable for SerializedState
SerializedState_into_lua_table(st) ==
    [name |-> st.name, dirs |-> st.dirs, frame_key |-> st.frame_key,
     frame_count |-> st.frame_count, delays |-> st.delays, loop |-> st.loop_,
     rewind |-> st.rewind, movement |-> st.movement, hotspots |-> st.hotspots]

\* materialize (section 4.5): read every state's frames back from its file
State_from_serialized(st, scr) ==
    [name |-> st.name, dirs |-> st.dirs, frame_key |-> st.frame_key,
     frame_count |-> st.frame_count, delays |-> st.delays, loop_ |-> st.loop_,
     rewind |-> st.rewind, movement |-> st.movement, hotspots |-> st.hotspots,
     frames |-> scr.files[st.frame_key]]

Dmi_from_serialized(ser, scr) ==
    IF \E i \in 1..Len(ser.states) : ser.states[i].frame_key \notin DOMAIN scr.files
    THEN Err("MissingArtifact")
    ELSE Ok([name |-> ser.name, width |-> ser.width, height |-> ser.height,
             states |-> [i \in 1..Len(ser.states) |->
                            State_from_serialized(ser.states[i], scr)]])

\* persist (section 4.5) keeping each state's frame_key: the serialized
\* document and the scratch directory with the frames rewritten
State_to_serialized(st) ==
    [name |-> st.name, dirs |-> st.dirs, frame_key |-> st.frame_key,
     frame_count |-> st.frame_count, delays |-> st.delays, loop_ |-> st.loop_,
     rewind |-> st.rewind, movement |-> st.movement, hotspots |-> st.hotspots]

Dmi_to_serialized(d, temp, scr) ==
    [serialized |->
        [name |-> d.name, width |-> d.width, height |-> d.height,
         states |-> [i \in 1..Len(d.states) |-> State_to_serialized(d.states[i])],
         temp |-> temp],
     scratch |->
        [scr EXCEPT !.files =
            [key \in DOMAIN scr.files |->
                IF \E i \in 1..Len(d.states) : d.states[i].frame_key = key
                THEN LET i == CHOOSE i \in 1..Len(d.states) :
                                  d.states[i].frame_key = key
                     IN  d.states[i].frames
                ELSE scr.files[key]]]]

(***************************************************************************)
(* Documents the transforms start from                                     *)
(***************************************************************************)
Idle ==
    [name |-> "idle", dirs |-> 1, frame_key |-> 1, frame_count |-> 2,
     delays |-> <<10, 20>>, loop |-> 0, rewind |-> FALSE, movement |-> FALSE,
     hotspots |-> <<"", "1,1">>]
Walk ==
    [name |-> "walk", dirs |-> 4, frame_key |-> 2, frame_count |-> 1,
     delays |-> <<5>>, loop |-> 3, rewind |-> TRUE, movement |-> FALSE,
     hotspots |-> <<"2,1">>]

Table(states, w, h) ==
    [name |-> "icon", width |-> w, height |-> h, states |-> states,
     temp |-> "tmp"]

Solid(w, h) == Tile(w, h, [q \in Grid(w, h) |-> Opaque(1)])

Gradient(w, h) ==
    Tile(w, h, [q \in Grid(w, h) |-> Opaque(q[1] + w * q[2] + 1)])

\* a scratch directory holding dirs * frame_count copies of img per state
ScratchFor(states, img) ==
    [exists |-> TRUE,
     files |-> [key \in {states[i].frame_key : i \in 1..Len(states)} |->
                  LET st == CHOOSE st \in {states[i] : i \in 1..Len(states)} :
                                st.frame_key = key
                  IN  [k \in 1..(st.dirs * st.frame_count) |-> img]]]

EmptyScratch == [exists |-> TRUE, files |-> [key \in {} |-> <<>>]]

NoInput == [img |-> Blank(1, 1), x |-> 0, y |-> 0, width |-> 1, height |-> 1]

NoDocument ==
    /\ dmi = Table(<<>>, 1, 1)
    /\ scratch = EmptyScratch
    /\ doc = SerializedDmi_from_lua_table(Table(<<>>, 1, 1))
    /\ clipboard = [kind |-> "empty", text |-> <<>>]
    /\ input = NoInput
    /\ ops = 0

(***************************************************************************)
(* merge_spritesheet                                                       *)
(***************************************************************************)
\* for i in 0..data.len() - 8 { if &data[i+4..i+8] == tag { pos = Some(i); break } }
scan_for_tag(data, tag) ==
    LET hits == {i \in 0..(Len(data) - 9) :
                     \A k \in 1..4 : data[i + 4 + k] = tag[k]}
    IN  IF hits = {} THEN None ELSE Some(Min(hits))

\* the bytes merge_spritesheet builds, or the error it stops with
merge_bytes(png_data, dmi_data) ==
    IF Len(dmi_data) < 8 THEN Panic
    ELSE
    LET ztxt_pos == scan_for_tag(dmi_data, zTXt) IN
    IF ~ztxt_pos.some THEN Err("Could not find DMI metadata in the file")
    ELSE
    LET ztxt_length == read_be_u32(dmi_data, ztxt_pos.pos) + 12 IN
    IF ztxt_pos.pos + ztxt_length > Len(dmi_data) THEN Panic
    ELSE
    LET ztxt_chunk == Slice(dmi_data, ztxt_pos.pos, ztxt_pos.pos + ztxt_length) IN
    IF Len(png_data) < 8 THEN Panic
    ELSE
    LET idat_pos == scan_for_tag(png_data, IDAT) IN
    IF ~idat_pos.some THEN Err("Could not find IDAT chunk in PNG file")
    ELSE Ok(Slice(png_data, 0, idat_pos.pos) \o ztxt_chunk
            \o Slice(png_data, idat_pos.pos, Len(png_data)))

\* as merge_outcome, but the output file is created before the edited raster
\* is searched for its IDAT chunk
merge_outcome_early_create(f, png_path, dmi_path, output_path) ==
    IF ~path_exists(f, png_path) THEN
        [ret |-> Err("PNG file does not exist"), fs |-> f]
    ELSE IF ~path_exists(f, dmi_path) THEN
        [ret |-> Err("DMI file does not exist"), fs |-> f]
    ELSE IF ~fs_read_ok(f, png_path) THEN
        [ret |-> Err("Failed to read PNG file"), fs |-> f]
    ELSE IF ~fs_read_ok(f, dmi_path) THEN
        [ret |-> Err("Failed to read DMI file"), fs |-> f]
    ELSE
    LET output_data == merge_bytes(f[png_path].data, f[dmi_path].data) IN
    IF ~fs_write_ok(f, output_path) THEN
        [ret |-> Err("Failed to write output file"), fs |-> f]
    ELSE IF output_data.status # "Ok" THEN
        [ret |-> output_data, fs |-> fs_write(f, output_path, <<>>)]
    ELSE [ret |-> Ok("true"),
          fs |-> fs_write(f, output_path, output_data.value)]

merge_outcome(f, png_path, dmi_path, output_path) ==
    IF ~path_exists(f, png_path) THEN
        [ret |-> Err("PNG file does not exist"), fs |-> f]
    ELSE IF ~path_exists(f, dmi_path) THEN
        [ret |-> Err("DMI file does not exist"), fs |-> f]
    ELSE IF ~fs_read_ok(f, png_path) THEN
        [ret |-> Err("Failed to read PNG file"), fs |-> f]
    ELSE IF ~fs_read_ok(f, dmi_path) THEN
        [ret |-> Err("Failed to read DMI file"), fs |-> f]
    ELSE
    LET output_data == merge_bytes(f[png_path].data, f[dmi_path].data) IN
    IF output_data.status # "Ok" THEN [ret |-> output_data, fs |-> f]
    ELSE IF ~fs_write_ok(f, output_path) THEN
        [ret |-> Err("Failed to write output file"), fs |-> f]
    ELSE [ret |-> Ok("true"),
          fs |-> fs_write(f, output_path, output_data.value)]

sheet == <<"sheet">>
orig == <<"orig">>
tmp == <<"tmp">>
tmp_tmp == <<"tmp", "tmp">>
PngPaths == {sheet, tmp, tmp_tmp}
DmiPaths == {orig, tmp, tmp_tmp}
OutputPaths == {sheet, tmp, tmp_tmp}

merge_spritesheet(png_path, dmi_path, output_path) ==
    \E out \in {merge_outcome(fs, png_path, dmi_path, output_path)} :
        /\ Len(out.fs[output_path].data) <= MaxFileLen
        /\ fs' = out.fs
        /\ result' = Returned("merge_spritesheet", out.ret)
        /\ call' = [op |-> "merge_spritesheet",
                    args |-> <<png_path, dmi_path, output_path>>]
        /\ UNCHANGED <<dmi, scratch, doc, clipboard, input, ops>>

(***************************************************************************)
(* Input containers: the 8-byte signature followed by chunks of a pool.    *)
(***************************************************************************)
DecoyZtxt == Chunk(tEXt, Chunk(zTXt, <<>>))
GoodZtxt == Chunk(zTXt, <<5>>)
BadCrcZtxt == be32(1) \o zTXt \o <<6>> \o <<0, 0, 0, 0>>
TruncatedZtxt == be32(3) \o zTXt \o <<7>>
DmiChunkPool == {DecoyZtxt, GoodZtxt, BadCrcZtxt, TruncatedZtxt}

DecoyIdat == Chunk(tEXt, IDAT)
PngChunkPool == {Chunk(IHDR, <<1>>), DecoyIdat, Chunk(IDAT, <<9>>)}

Containers(pool, n) ==
    {<<>>} \cup {PNG_SIGNATURE \o Concat(cs) : cs \in SeqsUpTo(pool, n)}

PngFiles == Containers(PngChunkPool, MaxPngChunks)
DmiFiles == Containers(DmiChunkPool, MaxDmiChunks)

InitMerge ==
    /\ \E P \in PngFiles, D \in DmiFiles :
         fs = [p \in Paths |->
                 IF p = sheet THEN File(P)
                 ELSE IF p = orig THEN File(D)
                 ELSE IF p = tmp THEN Dir
                 ELSE Absent]
    /\ result = NoResult
    /\ call = NoCall
    /\ NoDocument

NextMerge ==
    \E png_path \in PngPaths, dmi_path \in DmiPaths, output_path \in OutputPaths :
        merge_spritesheet(png_path, dmi_path, output_path)

SpecMerge == InitMerge /\ [][NextMerge]_vars

(***************************************************************************)
(* remove_dir                                                              *)
(***************************************************************************)
\* as remove_dir_outcome, but the soft flag does not stop the recursive removal
remove_dir_outcome_always_all(f, path, soft) ==
    IF path_is_dir(f, path)
    THEN [ret |-> Ok("nil"), fs |-> fs_remove_dir_all(f, path)]
    ELSE [ret |-> Ok("nil"), fs |-> f]

\* as remove_dir_outcome, but a path that is no directory is reported
remove_dir_outcome_err_missing(f, path, soft) ==
    IF path_is_dir(f, path) THEN
        IF ~soft THEN [ret |-> Ok("nil"), fs |-> fs_remove_dir_all(f, path)]
        ELSE IF read_dir_is_empty(f, path)
             THEN [ret |-> Ok("nil"), fs |-> fs_remove_dir(f, path)]
             ELSE [ret |-> Ok("nil"), fs |-> f]
    ELSE [ret |-> Err("No such file or directory"), fs |-> f]

remove_dir_outcome(f, path, soft) ==
    IF path_is_dir(f, path) THEN
        IF ~soft THEN [ret |-> Ok("nil"), fs |-> fs_remove_dir_all(f, path)]
        ELSE IF read_dir_is_empty(f, path)
             THEN [ret |-> Ok("nil"), fs |-> fs_remove_dir(f, path)]
             ELSE [ret |-> Ok("nil"), fs |-> f]
    ELSE [ret |-> Ok("nil"), fs |-> f]

remove_dir(path, soft) ==
    \E out \in {remove_dir_outcome(fs, path, soft)} :
        /\ fs' = out.fs
        /\ result' = Returned("remove_dir", out.ret)
        /\ call' = [op |-> "remove_dir", args |-> <<path, soft>>]
        /\ UNCHANGED <<dmi, scratch, doc, clipboard, input, ops>>

\* the scratch tree: everything under tmp, built from two entry names
ScratchNames == {"tmp", "sheet"}
ScratchPaths ==
    {p \in Paths : p[1] = "tmp" /\ \A i \in 1..Len(p) : p[i] \in ScratchNames}

InitFs ==
    /\ \E g \in [ScratchPaths -> {Absent, Dir, File(<<>>)}] :
         /\ \A p \in ScratchPaths :
              (Len(p) > 1 /\ g[p].kind # "absent") => g[Parent(p)].kind = "dir"
         /\ fs = [p \in Paths |-> IF p \in ScratchPaths THEN g[p] ELSE Absent]
    /\ result = NoResult
    /\ call = NoCall
    /\ NoDocument

NextFs == \E path \in Paths, soft \in BOOLEAN : remove_dir(path, soft)

SpecFs == InitFs /\ [][NextFs]_vars

(***************************************************************************)
(* resize, crop, expand                                                    *)
(***************************************************************************)
Filters == {"nearest", "triangle", "catmullrom", "gaussian", "lanczos3"}

resize_outcome(table, scr, width, height, method) ==
    LET ser == SerializedDmi_from_lua_table(table) IN
    IF method \notin Filters
    THEN [ret |-> [status |-> "panic", value |-> "unreachable"],
          scratch |-> scr, doc |-> ser, wrote |-> FALSE]
    ELSE
    LET loaded == Dmi_from_serialized(ser, scr) IN
    IF loaded.status # "Ok"
    THEN [ret |-> loaded, scratch |-> scr, doc |-> ser, wrote |-> FALSE]
    ELSE
    LET out == Dmi_to_serialized(Dmi_resize(loaded.value, width, height),
                                 ser.temp, scr)
    IN  [ret |-> [status |-> "Ok", value |-> "nil"], scratch |-> out.scratch,
         doc |-> out.serialized, wrote |-> TRUE]

\* as crop_outcome, but x and y are handed to Dmi::crop in the wrong order
crop_outcome_swapped_xy(table, scr, x, y, width, height) ==
    LET ser == SerializedDmi_from_lua_table(table)
        loaded == Dmi_from_serialized(ser, scr)
    IN
    IF loaded.status # "Ok"
    THEN [ret |-> loaded, scratch |-> scr, doc |-> ser, wrote |-> FALSE]
    ELSE
    LET out == Dmi_to_serialized(Dmi_crop(loaded.value, y, x, width, height),
                                 ser.temp, scr)
    IN  [ret |-> [status |-> "Ok", value |-> "nil"], scratch |-> out.scratch,
         doc |-> out.serialized, wrote |-> TRUE]

crop_outcome(table, scr, x, y, width, height) ==
    LET ser == SerializedDmi_from_lua_table(table)
        loaded == Dmi_from_serialized(ser, scr)
    IN
    IF loaded.status # "Ok"
    THEN [ret |-> loaded, scratch |-> scr, doc |-> ser, wrote |-> FALSE]
    ELSE
    LET out == Dmi_to_serialized(Dmi_crop(loaded.value, x, y, width, height),
                                 ser.temp, scr)
    IN  [ret |-> [status |-> "Ok", value |-> "nil"], scratch |-> out.scratch,
         doc |-> out.serialized, wrote |-> TRUE]

expand_outcome(table, scr, x, y, width, height) ==
    LET ser == SerializedDmi_from_lua_table(table)
        loaded == Dmi_from_serialized(ser, scr)
    IN
    IF loaded.status # "Ok"
    THEN [ret |-> loaded, scratch |-> scr, doc |-> ser, wrote |-> FALSE]
    ELSE
    LET out == Dmi_to_serialized(Dmi_expand(loaded.value, x, y, width, height),
                                 ser.temp, scr)
    IN  [ret |-> [status |-> "Ok", value |-> "nil"], scratch |-> out.scratch,
         doc |-> out.serialized, wrote |-> TRUE]

\* the part of a transform common to the three handlers: the scratch
\* directory and the document last persisted change only on success
Transformed(op, out) ==
    /\ scratch' = out.scratch
    /\ doc' = IF out.wrote THEN out.doc ELSE doc
    /\ result' = [op |-> op, status |-> out.ret.status, value |-> out.ret.value]
    /\ call' = [op |-> op, args |-> <<>>]
    /\ ops < MaxOps
    /\ ops' = ops + 1
    /\ UNCHANGED <<fs, dmi, clipboard, input>>

resize(width, height, method) ==
    \E out \in {resize_outcome(dmi, scratch, width, height, method)} :
        Transformed("resize", out)

crop(x, y, width, height) ==
    \E out \in {crop_outcome(dmi, scratch, x, y, width, height)} :
        Transformed("crop", out)

expand(x, y, width, height) ==
    \E out \in {expand_outcome(dmi, scratch, x, y, width, height)} :
        Transformed("expand", out)

Dims == 1..MaxDim
Offsets == 0..(MaxDim - 1)
DocOffsets == {0, 1}

InitDoc ==
    /\ \E w \in Dims, h \in Dims, states \in {<<Idle>>, <<Idle, Walk>>},
          purged \in BOOLEAN :
         /\ dmi = Table(states, w, h)
         /\ scratch = IF purged THEN EmptyScratch
                      ELSE ScratchFor(states, Solid(w, h))
         /\ doc = SerializedDmi_from_lua_table(Table(states, w, h))
    /\ clipboard = [kind |-> "empty", text |-> <<>>]
    /\ input = NoInput
    /\ fs = [p \in Paths |-> Absent]
    /\ result = NoResult
    /\ call = NoCall
    /\ ops = 0

NextDoc ==
    \/ \E w \in Dims, h \in Dims, method \in Filters \cup {"bicubic"} :
          resize(w, h, method)
    \/ \E x \in DocOffsets, y \in DocOffsets, w \in Dims, h \in Dims :
          crop(x, y, w, h)
    \/ \E x \in DocOffsets, y \in DocOffsets, w \in Dims, h \in Dims :
          expand(x, y, w, h)

SpecDoc == InitDoc /\ [][NextDoc]_vars

(***************************************************************************)
(* crop followed by expand back to the original canvas, on a drawn tile    *)
(***************************************************************************)
Images(w, h) ==
    {Tile(w, h, [q \in Grid(w, h) |->
                    IF q \in clear THEN Transparent
                    ELSE Opaque(q[1] + w * q[2] + 1)]) :
        clear \in SUBSET Grid(w, h)}

InitCropExpand ==
    /\ \E w \in Dims, h \in Dims :
         \E img \in Images(w, h), x \in Offsets, y \in Offsets,
            cw \in Dims, ch \in Dims :
              /\ input = [img |-> img, x |-> x, y |-> y,
                          width |-> cw, height |-> ch]
              /\ dmi = Table(<<Idle>>, w, h)
              /\ scratch = ScratchFor(<<Idle>>, img)
              /\ doc = SerializedDmi_from_lua_table(Table(<<Idle>>, w, h))
    /\ clipboard = [kind |-> "empty", text |-> <<>>]
    /\ fs = [p \in Paths |-> Absent]
    /\ result = NoResult
    /\ call = NoCall
    /\ ops = 0

NextCropExpand ==
    \/ /\ call.op = "none"
       /\ crop(input.x, input.y, input.width, input.height)
    \/ /\ call.op = "crop"
       /\ expand(input.x, input.y, input.img.width, input.img.height)

SpecCropExpand == InitCropExpand /\ [][NextCropExpand]_vars

(***************************************************************************)
(* copy_state, paste_state.  Clipboard text is a sequence of tokens; the   *)
(* envelope is the JSON object serde writes for a ClipboardState.  A JSON   *)
(* value keeps one slot per type so that values of all types compare.      *)
(***************************************************************************)
JNull == [ty |-> "null", s |-> "", n |-> 0, b |-> FALSE, nums |-> <<>>, strs |-> <<>>]
JStr(x) == [JNull EXCEPT !.ty = "string", !.s = x]
JNum(x) == [JNull EXCEPT !.ty = "number", !.n = x]
JBool(x) == [JNull EXCEPT !.ty = "bool", !.b = x]
JNums(x) == [JNull EXCEPT !.ty = "numbers", !.nums = x]
JStrs(x) == [JNull EXCEPT !.ty = "strings", !.strs = x]

\* a JSON string is plain text or the encoding of an image
Plain(x) == [ok |-> FALSE, img |-> Blank(1, 1), s |-> x]
Encoded(img) == [ok |-> TRUE, img |-> img, s |-> ""]
Garbage == Plain("not an image")

Punct(c) == [t |-> "punct", v |-> c, j |-> JNull]
Key(k) == [t |-> "key", v |-> k, j |-> JNull]
Val(j) == [t |-> "val", v |-> "", j |-> j]
Word(w) == [t |-> "word", v |-> w, j |-> JNull]

EnvelopeFields ==
    <<[key |-> "name", ty |-> "string"], [key |-> "dirs", ty |-> "number"],
      [key |-> "frames", ty |-> "strings"], [key |-> "delays", ty |-> "numbers"],
      [key |-> "loop_", ty |-> "number"], [key |-> "rewind", ty |-> "bool"],
      [key |-> "movement", ty |-> "bool"], [key |-> "hotspots", ty |-> "strings"]>>

\* serde_json::to_string of a ClipboardState
serde_json_to_string(cs) ==
    <<Punct("{"),
      Key("name"), Val(JStr(cs.name)),
      Key("dirs"), Val(JNum(cs.dirs)),
      Key("frames"), Val(JStrs(cs.frames)),
      Key("delays"), Val(JNums(cs.delays)),
      Key("loop_"), Val(JNum(cs.loop_)),
      Key("rewind"), Val(JBool(cs.rewind)),
      Key("movement"), Val(JBool(cs.movement)),
      Key("hotspots"), Val(JStrs([k \in 1..Len(cs.hotspots) |-> Plain(cs.hotspots[k])])),
      Punct("}")>>

\* serde_json::from_str::<ClipboardState>: the text must be one object whose
\* members include every field once, each with a value of the field's type
IsPunct(tok, c) == tok.t = "punct" /\ tok.v = c
IsObject(text) ==
    /\ Len(text) >= 2 /\ Len(text) % 2 = 0
    /\ IsPunct(text[1], "{") /\ IsPunct(text[Len(text)], "}")
    /\ \A i \in 1..((Len(text) - 2) \div 2) :
          text[2 * i].t = "key" /\ text[2 * i + 1].t = "val"
MembersOf(text, k) ==
    {i \in 1..((Len(text) - 2) \div 2) : text[2 * i].v = k}
Member(text, k) == text[2 * (CHOOSE i \in MembersOf(text, k) : TRUE) + 1].j
serde_json_from_str(text) ==
    IF ~IsObject(text) THEN Err("Serde")
    ELSE IF \E f \in 1..Len(EnvelopeFields) :
               LET m == MembersOf(text, EnvelopeFields[f].key) IN
               \/ Cardinality(m) # 1
               \/ \E i \in m : text[2 * i + 1].j.ty # EnvelopeFields[f].ty
         THEN Err("Serde")
         ELSE Ok([name |-> Member(text, "name").s,
                  dirs |-> Member(text, "dirs").n,
                  frames |-> Member(text, "frames").strs,
                  delays |-> Member(text, "delays").nums,
                  loop_ |-> Member(text, "loop_").n,
                  rewind |-> Member(text, "rewind").b,
                  movement |-> Member(text, "movement").b,
                  hotspots |-> LET h == Member(text, "hotspots").strs
                               IN  [k \in 1..Len(h) |-> h[k].s]])

State_into_clipboard(st) ==
    [name |-> st.name, dirs |-> st.dirs,
     frames |-> [k \in 1..Len(st.frames) |-> Encoded(st.frames[k])],
     delays |-> st.delays, loop_ |-> st.loop_, rewind |-> st.rewind,
     movement |-> st.movement, hotspots |-> st.hotspots]

\* State::from_clipboard (section 4.6): decode the frames and fit them to the
\* destination canvas
State_from_clipboard(cs, width, height) ==
    IF \E k \in 1..Len(cs.frames) : ~cs.frames[k].ok
    THEN Err("InvalidEnvelope")
    ELSE Ok([name |-> cs.name, dirs |-> cs.dirs,
             frame_count |-> Len(cs.frames) \div cs.dirs,
             delays |-> cs.delays, loop_ |-> cs.loop_, rewind |-> cs.rewind,
             movement |-> cs.movement, hotspots |-> cs.hotspots,
             frames |-> [k \in 1..Len(cs.frames) |->
                           LET img == cs.frames[k].img IN
                           IF img.width = width /\ img.height = height
                           THEN img ELSE resize_tile(img, width, height)]])

temp_exists(scr, temp) == temp = "tmp" /\ scr.exists

FreeKeys(scr) == (1..MaxKeys) \ DOMAIN scr.files

\* State::to_serialized(temp): the frames go to a file under a new key
State_persist(st, scr) ==
    LET key == Min(FreeKeys(scr)) IN
    [serialized |-> State_to_serialized([st EXCEPT !.frame_key = key]),
     scratch |-> [scr EXCEPT !.files =
                    [k \in DOMAIN scr.files \cup {key} |->
                        IF k = key THEN st.frames ELSE scr.files[k]]]]

\* as paste_state_outcome, but text that does not parse yields a blank state
paste_state_outcome_default_on_error(clip, scr, width, height, temp) ==
    IF ~temp_exists(scr, temp)
    THEN [ret |-> Err("Temp directory does not exist"), scratch |-> scr]
    ELSE IF clip.kind # "text" THEN [ret |-> Err("Arboard"), scratch |-> scr]
    ELSE
    LET parsed == serde_json_from_str(clip.text)
        blank == [name |-> "", dirs |-> 1, frame_count |-> 1, delays |-> <<1>>,
                  loop_ |-> 0, rewind |-> FALSE, movement |-> FALSE,
                  hotspots |-> <<>>, frames |-> <<Blank(width, height)>>]
        state == IF parsed.status = "Ok"
                 THEN State_from_clipboard(parsed.value, width, height)
                 ELSE Ok(blank)
    IN
    IF state.status # "Ok" THEN [ret |-> state, scratch |-> scr]
    ELSE
    LET out == State_persist([frame_key |-> 0] @@ state.value, scr) IN
    [ret |-> Ok(SerializedState_into_lua_table(out.serialized)),
     scratch |-> out.scratch]

paste_state_outcome(clip, scr, width, height, temp) ==
    IF ~temp_exists(scr, temp)
    THEN [ret |-> Err("Temp directory does not exist"), scratch |-> scr]
    ELSE IF clip.kind # "text" THEN [ret |-> Err("Arboard"), scratch |-> scr]
    ELSE
    LET parsed == serde_json_from_str(clip.text) IN
    IF parsed.status # "Ok" THEN [ret |-> parsed, scratch |-> scr]
    ELSE
    LET state == State_from_clipboard(parsed.value, width, height) IN
    IF state.status # "Ok" THEN [ret |-> state, scratch |-> scr]
    ELSE
    LET out == State_persist([frame_key |-> 0] @@ state.value, scr) IN
    [ret |-> Ok(SerializedState_into_lua_table(out.serialized)),
     scratch |-> out.scratch]

paste_state(width, height, temp) ==
    /\ FreeKeys(scratch) # {}
    /\ ops < MaxPastes
    /\ \E out \in {paste_state_outcome(clipboard, scratch, width, height, temp)} :
          /\ scratch' = out.scratch
          /\ result' = Returned("paste_state", out.ret)
    /\ call' = [op |-> "paste_state", args |-> <<width, height, temp>>]
    /\ ops' = ops + 1
    /\ UNCHANGED <<fs, dmi, doc, clipboard, input>>

copy_state_outcome(state, scr, temp) ==
    IF ~temp_exists(scr, temp)
    THEN [ret |-> Err("Temp directory does not exist"), text |-> <<>>]
    ELSE
    LET st == SerializedState_from_lua_table(state) IN
    IF st.frame_key \notin DOMAIN scr.files
    THEN [ret |-> Err("MissingArtifact"), text |-> <<>>]
    ELSE [ret |-> Ok("nil"),
          text |-> serde_json_to_string(
                      State_into_clipboard(State_from_serialized(st, scr)))]

copy_state(i, temp) ==
    /\ \E out \in {copy_state_outcome(dmi.states[i], scratch, temp)} :
          /\ clipboard' = IF out.ret.status = "Ok"
                          THEN [kind |-> "text", text |-> out.text]
                          ELSE clipboard
          /\ result' = Returned("copy_state", out.ret)
    /\ call' = [op |-> "copy_state", args |-> <<i, temp>>]
    /\ UNCHANGED <<fs, dmi, scratch, doc, input, ops>>

\* another application owns the clipboard (section 5): any text may be there
SampleEnvelope ==
    serde_json_to_string(
        State_into_clipboard(
            State_from_serialized(SerializedState_from_lua_table(Idle),
                                  ScratchFor(<<Idle>>, Solid(1, 1)))))
ForeignTexts ==
    {<<>>,
     <<Word("hello"), Word("world")>>,
     <<Punct("{"), Key("foo"), Val(JNum(1)), Punct("}")>>,
     <<Punct("["), Val(JNum(1)), Punct("]")>>,
     SubSeq(SampleEnvelope, 1, Len(SampleEnvelope) - 1),
     SubSeq(SampleEnvelope, 1, Len(SampleEnvelope) - 3) \o <<Punct("}")>>,
     [SampleEnvelope EXCEPT ![5] = Val(JStr("1"))],
     [SampleEnvelope EXCEPT ![7] = Val(JStrs(<<Garbage, Garbage>>))]}

OtherApplicationCopies(text) ==
    /\ clipboard' = [kind |-> "text", text |-> text]
    /\ UNCHANGED <<fs, result, call, dmi, scratch, doc, input, ops>>

InitClip ==
    /\ \E w \in Dims, h \in Dims, states \in {<<Idle>>, <<Idle, Walk>>},
          exists \in BOOLEAN :
         /\ dmi = Table(states, w, h)
         /\ scratch = IF exists THEN ScratchFor(states, Solid(w, h))
                      ELSE [EmptyScratch EXCEPT !.exists = FALSE]
         /\ doc = SerializedDmi_from_lua_table(Table(states, w, h))
    /\ clipboard = [kind |-> "empty", text |-> <<>>]
    /\ input = NoInput
    /\ fs = [p \in Paths |-> Absent]
    /\ result = NoResult
    /\ call = NoCall
    /\ ops = 0

NextClip ==
    \/ \E i \in 1..Len(dmi.states) : copy_state(i, "tmp")
    \/ \E w \in Dims, h \in Dims : paste_state(w, h, "tmp")
    \/ \E text \in ForeignTexts : OtherApplicationCopies(text)

SpecClip == InitClip /\ [][NextClip]_vars

(***************************************************************************)
(* find_chunk as the specification describes it: walk the chunk sequence   *)
(* after the signature, advancing by each chunk's declared length + 12.    *)
(***************************************************************************)
RECURSIVE walk_chunks(_, _, _)
walk_chunks(data, tag, p) ==
    IF p + 8 > Len(data) THEN [kind |-> "none", pos |-> p, total |-> 0]
    ELSE
    LET total == read_be_u32(data, p) + 12 IN
    IF p + total > Len(data) THEN [kind |-> "truncated", pos |-> p, total |-> total]
    ELSE IF Slice(data, p + 4, p + 8) = tag
         THEN [kind |-> "some", pos |-> p, total |-> total]
         ELSE walk_chunks(data, tag, p + total)

find_chunk(data, tag) == walk_chunks(data, tag, Len(PNG_SIGNATURE))

\* a chunk's checksum field matches its tag + payload
chunk_validates(chunk) ==
    LET n == Len(chunk) IN
    /\ n >= 12
    /\ Slice(chunk, n - 4, n) = checksum(Slice(chunk, 4, 8), Slice(chunk, 8, n - 4))

(***************************************************************************)
(* Claims about merge_spritesheet (checked under SpecMerge)                *)
(***************************************************************************)
MergeStep(png_path, dmi_path, output_path) ==
    /\ call'.op = "merge_spritesheet"
    /\ call'.args = <<png_path, dmi_path, output_path>>

LocatedStructurally(data, tag) ==
    LET s == scan_for_tag(data, tag)
        w == find_chunk(data, tag)
    IN  s.some /\ w.kind = "some" /\ s.pos = w.pos

\* C1: in every successful merge, the position the merge used for the zTXt
\* chunk of the original container and for the IDAT chunk of the edited
\* raster is the start of the first chunk with that tag found by walking the
\* chunks by their declared lengths, never a position inside a payload.
C1_StructuralLocation ==
    [][\A png_path \in PngPaths, dmi_path \in DmiPaths, output_path \in OutputPaths :
          (MergeStep(png_path, dmi_path, output_path) /\ result'.status = "Ok")
          => /\ LocatedStructurally(fs[dmi_path].data, zTXt)
             /\ LocatedStructurally(fs[png_path].data, IDAT)]_vars

\* C2: a successful merge of raster P (with an IDAT chunk) and container D
\* (with a zTXt chunk M) writes exactly P[0..i) ++ M ++ P[i..end), i being
\* the start of the first IDAT chunk of P.
C2_SpliceBeforeFirstIdat ==
    [][\A png_path \in PngPaths, dmi_path \in DmiPaths, output_path \in OutputPaths :
          LET P == fs[png_path].data
              D == fs[dmi_path].data
              i == find_chunk(P, IDAT)
              m == find_chunk(D, zTXt)
          IN  (/\ MergeStep(png_path, dmi_path, output_path)
               /\ result'.status = "Ok"
               /\ i.kind = "some" /\ m.kind = "some")
              => fs'[output_path].data =
                   Slice(P, 0, i.pos) \o Slice(D, m.pos, m.pos + m.total)
                   \o Slice(P, i.pos, Len(P))]_vars

\* C3: when the located zTXt chunk's declared length reaches past the end of
\* the original container, the merge returns an error value and writes
\* nothing; it does not abort.
C3_TruncatedIsError ==
    [][\A png_path \in PngPaths, dmi_path \in DmiPaths, output_path \in OutputPaths :
          LET D == fs[dmi_path].data
              z == scan_for_tag(D, zTXt)
          IN  (/\ MergeStep(png_path, dmi_path, output_path)
               /\ fs_read_ok(fs, png_path) /\ fs_read_ok(fs, dmi_path)
               /\ Len(D) >= 8 /\ z.some
               /\ z.pos + read_be_u32(D, z.pos) + 12 > Len(D))
              => result'.status = "Err" /\ fs' = fs]_vars

\* C4: the metadata chunk a successful merge writes carries a checksum that
\* validates against its tag + payload, whatever checksum the input carried.
C4_ChecksumRecomputed ==
    [][\A png_path \in PngPaths, dmi_path \in DmiPaths, output_path \in OutputPaths :
          LET D == fs[dmi_path].data
              z == scan_for_tag(D, zTXt)
              i == scan_for_tag(fs[png_path].data, IDAT)
              n == read_be_u32(D, z.pos) + 12
          IN  (/\ MergeStep(png_path, dmi_path, output_path)
               /\ result'.status = "Ok"
               /\ LocatedStructurally(D, zTXt)
               /\ LocatedStructurally(fs[png_path].data, IDAT))
              => chunk_validates(Slice(fs'[output_path].data, i.pos, i.pos + n))]_vars

InputErrors ==
    {"PNG file does not exist", "DMI file does not exist",
     "Failed to read PNG file", "Failed to read DMI file",
     "Could not find DMI metadata in the file",
     "Could not find IDAT chunk in PNG file"}

\* C10: a merge that returns an error for a missing or unreadable input, a
\* missing zTXt chunk or a missing IDAT chunk leaves the output path (and the
\* rest of the file system) as it was.
C10_ErrorLeavesOutput ==
    [][(/\ call'.op = "merge_spritesheet"
        /\ result'.status = "Err" /\ result'.value \in InputErrors)
       => fs'[call'.args[3]] = fs[call'.args[3]]]_vars

C10_Witness ==
    /\ call.op = "merge_spritesheet" /\ call.args = <<sheet, orig, tmp_tmp>>
    /\ result.status = "Err"
    /\ result.value = "Could not find IDAT chunk in PNG file"
    /\ fs[tmp_tmp].kind = "absent"

(***************************************************************************)
(* Claims about remove_dir (checked under SpecFs)                          *)
(***************************************************************************)
HasEntry(f, path) == \E q \in Children(path) : f[q].kind # "absent"

\* C5: on an existing directory, a soft purge removes the directory only when
\* it has no entry and otherwise leaves it and all its contents unchanged; a
\* hard purge removes the directory with everything below it. Paths outside
\* the directory are untouched either way.
C5_PurgeSoftOrAll ==
    [][call'.op = "remove_dir" /\ path_is_dir(fs, call'.args[1]) =>
         LET path == call'.args[1]
             soft == call'.args[2]
         IN  /\ (soft /\ HasEntry(fs, path)) => fs' = fs
             /\ (soft /\ ~HasEntry(fs, path)) => fs'[path].kind = "absent"
             /\ ~soft => \A q \in Paths : IsPrefix(path, q) => fs'[q].kind = "absent"
             /\ \A q \in Paths : ~IsPrefix(path, q) => fs'[q] = fs[q]]_vars

C5_Witness ==
    /\ call.op = "remove_dir" /\ call.args = <<tmp, TRUE>>
    /\ result.status = "Ok"
    /\ fs[tmp].kind = "dir" /\ fs[<<"tmp", "sheet">>].kind = "file"

\* C6: remove_dir on a path that does not exist returns success and changes
\* nothing in the file system, with soft = TRUE and with soft = FALSE.
C6_AbsentPathIsNoOp ==
    [][call'.op = "remove_dir" /\ ~path_exists(fs, call'.args[1]) =>
         result'.status = "Ok" /\ fs' = fs]_vars

C6_Witness ==
    /\ call.op = "remove_dir" /\ call.args = <<tmp_tmp, FALSE>>
    /\ result.status = "Ok"
    /\ fs[tmp].kind = "file" /\ fs[tmp_tmp].kind = "absent"

(***************************************************************************)
(* Claims about resize, crop and expand                                    *)
(***************************************************************************)
Meta(st) ==
    <<st.name, st.dirs, st.frame_count, st.delays, st.loop_, st.rewind,
      st.movement, st.hotspots>>
MetaOfTable(t) ==
    <<t.name, t.dirs, t.frame_count, t.delays, t.loop, t.rewind, t.movement,
      t.hotspots>>

\* C7: every successful resize, crop or expand persists a document with the
\* same states in the same order, each with the name, direction count, frame
\* count, delays, loop count, rewind, movement and hotspots it had before and
\* has in the caller's table; the table itself is not touched.
C7_TransformsKeepMetadata ==
    [][(call'.op \in {"resize", "crop", "expand"} /\ result'.status = "Ok") =>
         /\ Len(doc'.states) = Len(doc.states)
         /\ \A i \in 1..Len(doc.states) :
               /\ Meta(doc'.states[i]) = Meta(doc.states[i])
               /\ Meta(doc'.states[i]) = MetaOfTable(dmi.states[i])
         /\ dmi' = dmi]_vars

C7_Witness ==
    /\ call.op = "crop" /\ result.status = "Ok"
    /\ Len(doc.states) = 2
    /\ doc.states[2].rewind /\ ~doc.states[2].movement
    /\ doc.width = 1 /\ dmi.width = 2
    /\ scratch.files[2][1].width = 1

\* C8: after crop(x, y, w, h) and expand(x, y, W, H) on a W x H tile with the
\* rectangle inside the canvas, the tile is W x H, equals the original at
\* every position of [x, x+w) x [y, y+h) and is transparent everywhere else.
C8_CropExpandInverse ==
    (/\ call.op = "expand" /\ result.status = "Ok"
     /\ input.x + input.width <= input.img.width
     /\ input.y + input.height <= input.img.height)
    => LET out == scratch.files[1][1]
           InRect(q) == /\ input.x <= q[1] /\ q[1] < input.x + input.width
                        /\ input.y <= q[2] /\ q[2] < input.y + input.height
       IN  /\ out.width = input.img.width /\ out.height = input.img.height
           /\ \A q \in Grid(input.img.width, input.img.height) :
                 out.px[q] = IF InRect(q) THEN input.img.px[q] ELSE Transparent

C8_Witness ==
    /\ call.op = "expand" /\ result.status = "Ok"
    /\ input.x = 1 /\ input.y = 0 /\ input.width = 1 /\ input.height = 1
    /\ input.img = Gradient(2, 2)
    /\ scratch.files[1][1].px[<<1, 0>>] = Opaque(2)
    /\ scratch.files[1][1].px[<<0, 0>>] = Transparent

(***************************************************************************)
(* Claims about paste_state (checked under SpecClip)                       *)
(***************************************************************************)
\* the envelopes copy_state can have written
ValidEnvelopes ==
    {serde_json_to_string(
        State_into_clipboard(
            State_from_serialized(SerializedState_from_lua_table(st),
                                  ScratchFor(<<st>>, Solid(w, h))))) :
        st \in {Idle, Walk}, w \in Dims, h \in Dims}

\* C9: paste_state on clipboard text that is not a state envelope returns an
\* error value; it does not panic, builds no state and writes nothing to the
\* scratch directory.  (A step that leaves the clipboard alone and ends with
\* paste_state as the last call is a paste_state step.)
C9_ForeignTextIsError ==
    [][(/\ call'.op = "paste_state" /\ clipboard' = clipboard
        /\ clipboard.kind = "text" /\ clipboard.text \notin ValidEnvelopes)
       => result'.status = "Err" /\ scratch' = scratch]_vars

C9_Witness ==
    /\ call.op = "paste_state" /\ result.status = "Err"
    /\ result.value = "Serde"
    /\ clipboard.kind = "text"
    /\ clipboard.text = <<Word("hello"), Word("world")>>
    /\ scratch.exists

====
